---- MODULE Spec2Model ----
(***************************************************************************)
(* A model of the NFA builder of regex-matcher (src/nfa/mod.rs): the arena *)
(* of states, the fragment builder build_expr, the edge patcher            *)
(* update_outputs and the priority resolver get_priority_key.              *)
(*                                                                         *)
(* Arena indices are the source's 0-based usize indices; the arena itself  *)
(* is a TLA+ sequence, so the state at index i is states[i + 1].           *)
(***************************************************************************)
EXTENDS Integers, Sequences, FiniteSets

VARIABLES
    pc,      \* "start" | "building" | "built" | "done" | "panicked" |
             \* "patching" | "patched"
    expr,    \* the syntax tree handed to from_expr (NoExpr before any call)
    nfa,     \* the automaton value: [start, states]
    stack,   \* the call stack of build_expr: one frame per active call
    ret,     \* the index returned by the outermost build_expr call
    last,    \* history: the last builder arm or patch pass that ran
    result   \* the value returned by the last query

vars == <<pc, expr, nfa, stack, ret, last, result>>

(***************************************************************************)
(* Bounds of the model.                                                    *)
(***************************************************************************)
\* the largest syntax tree handed to from_expr, in nodes
MaxNodes == 4
\* the longest arena handed to from_states or to a stand-alone patch pass
MaxArena == 2

(***************************************************************************)
(* Characters.  A char is its code point.  'a' (97) and 'b' (98) encode as *)
(* one UTF-8 byte, U+00E9 (233) as two.                                    *)
(***************************************************************************)
Chars == {97, 98, 233}

\* char::encode_utf8: the number of bytes of the UTF-8 encoding of c
Utf8Len(c) ==
    IF c < 128 THEN 1
    ELSE IF c < 2048 THEN 2
    ELSE IF c < 65536 THEN 3
    ELSE 4

\* Option<T>
Absent == <<>>
Some(v) == <<v>>

(***************************************************************************)
(* ConditionChar, Edge, State                                              *)
(***************************************************************************)
One(c) == [tag |-> "One", c |-> c]
Class(chars) == [tag |-> "Class", chars |-> chars]
Any == [tag |-> "Any"]
None == [tag |-> "None"]

\* the outcome of a call that can panic: a value, or the panic
Panic == [tag |-> "panic"]
Returned(v) == [tag |-> "returned", v |-> v]

\* ConditionChar::to_ascii, with the wrong byte count accepted
ToAsciiTwoBytes(c) ==
    IF Utf8Len(c) <= 2 THEN Returned(c % 256) ELSE Panic

\* ConditionChar::to_ascii: the single byte of c, or a panic when encode_utf8
\* does not fit c into the one-byte buffer
ToAscii(c) ==
    IF Utf8Len(c) = 1 THEN Returned(c) ELSE Panic

\* ConditionChar::one
ConditionOne(c) ==
    LET b == ToAscii(c)
    IN  IF b = Panic THEN Panic ELSE Returned(One(b.v))

\* ConditionChar::class: to_ascii mapped over the chars, panicking on the first
\* char that is not one byte
ConditionClass(chars) ==
    IF \E i \in 1..Len(chars) : ToAscii(chars[i]) = Panic
    THEN Panic
    ELSE Returned(Class([i \in 1..Len(chars) |-> ToAscii(chars[i]).v]))

Id(id) == [tag |-> "Id", id |-> id]
Detached == [tag |-> "Detached"]
End == [tag |-> "End"]

\* State::state
State(condition, out) == [variant |-> "State", condition |-> condition, out |-> out]
\* State::split
Split(out1, out2) == [variant |-> "Split", out1 |-> out1, out2 |-> out2]

\* the outgoing edges of a state, in field order
Outs(s) == IF s.variant = "State" THEN <<s.out>> ELSE <<s.out1, s.out2>>

(***************************************************************************)
(* NFA: constructors and queries                                           *)
(***************************************************************************)
\* NFA::new
New == [start |-> 0, states |-> <<>>]

\* NFA::from_states
FromStates(states) == [start |-> 0, states |-> states]

\* NFA::get_state, with the bounds test off by one
GetStateOffByOne(n, index) ==
    IF index + 1 >= Len(n.states) THEN Absent ELSE Some(n.states[index + 1])

\* NFA::get_state
GetState(n, index) ==
    IF index >= Len(n.states) THEN Absent ELSE Some(n.states[index + 1])

\* NFA::get_start
GetStart(n) ==
    IF n.start >= Len(n.states) THEN Absent ELSE Some(n.states[n.start + 1])

\* NFA::num_states
NumStates(n) == Len(n.states)

(***************************************************************************)
(* Edge patcher                                                            *)
(*                                                                         *)
(* The patcher mutates self.states and the visited vector through &mut     *)
(* references; here that memory is the record m = [states, visited,        *)
(* entered] threaded through the calls.  entered is history: the indices   *)
(* update_outputs_rec was called with, in call order.                      *)
(***************************************************************************)
\* Vec::contains
Contains(vec, x) == \E i \in 1..Len(vec) : vec[i] = x

RECURSIVE UpdateOutputsRec(_, _, _)
RECURSIVE ReplaceEdge(_, _, _)

\* NFA::replace_edge that does not follow Linked transitions
ReplaceEdgeShallow(m, edge, replacement) ==
    IF edge.tag = "Detached" THEN [m |-> m, edge |-> replacement]
    ELSE [m |-> m, edge |-> edge]

\* NFA::replace_edge that patches Accept transitions as well as Open ones
ReplaceEdgePatchesEnd(m, edge, replacement) ==
    IF edge.tag = "Id" THEN
        IF ~Contains(m.visited, edge.id)
        THEN [m |-> UpdateOutputsRec([m EXCEPT !.visited = Append(@, edge.id)],
                                     edge.id, replacement),
              edge |-> edge]
        ELSE [m |-> m, edge |-> edge]
    ELSE [m |-> m, edge |-> replacement]

\* NFA::replace_edge: the edge to store, and the memory after the call
ReplaceEdge(m, edge, replacement) ==
    IF edge.tag = "Detached" THEN [m |-> m, edge |-> replacement]
    ELSE IF edge.tag = "Id" THEN
        IF ~Contains(m.visited, edge.id)
        THEN [m |-> UpdateOutputsRec([m EXCEPT !.visited = Append(@, edge.id)],
                                     edge.id, replacement),
              edge |-> edge]
        ELSE [m |-> m, edge |-> edge]
    ELSE [m |-> m, edge |-> edge]

\* NFA::update_outputs_rec
UpdateOutputsRec(m, start_id, new_edge) ==
    LET state == m.states[start_id + 1]
        m0 == [m EXCEPT !.entered = Append(@, start_id)]
    IN  IF state.variant = "State"
        THEN LET r == ReplaceEdge(m0, state.out, new_edge)
             IN  [r.m EXCEPT !.states[start_id + 1] = State(state.condition, r.edge)]
        ELSE LET r1 == ReplaceEdge(m0, state.out1, new_edge)
                 r2 == ReplaceEdge(r1.m, state.out2, new_edge)
             IN  [r2.m EXCEPT !.states[start_id + 1] = Split(r1.edge, r2.edge)]

\* NFA::update_outputs with the visited vector starting empty
UpdateOutputsUnseeded(states, start_id, new_edge) ==
    UpdateOutputsRec([states |-> states, visited |-> <<>>, entered |-> <<>>],
                     start_id, new_edge)

\* NFA::update_outputs: the memory after the pass (its states are the arena)
UpdateOutputs(states, start_id, new_edge) ==
    UpdateOutputsRec([states |-> states, visited |-> <<start_id>>, entered |-> <<>>],
                     start_id, new_edge)

(***************************************************************************)
(* Priority resolver                                                       *)
(*                                                                         *)
(* get_priority_key recurses through nfa.get_state(id).unwrap() and keeps  *)
(* no visited set.  depth counts the arena states on the current chain of  *)
(* nested calls.  A chain of more than num_states arena states holds one   *)
(* state twice, and the call on that state, being a pure function of the   *)
(* state and the arena, then recurses into itself for ever: the call never *)
(* returns and the thread's stack overflows.  That outcome is Overflow.    *)
(***************************************************************************)
\* usize::max_value(); only its order against the byte values 0..255 is used,
\* so the model takes the value of a 16-bit target
UsizeMax == 65535

Overflow == [tag |-> "overflow"]

\* cmp::max in place of cmp::min
MaxOutcome(a, b) ==
    IF a.tag # "returned" THEN a
    ELSE IF b.tag # "returned" THEN b
    ELSE IF a.v >= b.v THEN a ELSE b

\* cmp::min of two calls, both evaluated before min runs, the left one first
MinOutcome(a, b) ==
    IF a.tag # "returned" THEN a
    ELSE IF b.tag # "returned" THEN b
    ELSE IF a.v <= b.v THEN a ELSE b

RECURSIVE GetPriorityKey(_, _, _)
RECURSIVE GetTransitionPriorityKey(_, _, _, _)

\* State::get_transition_priority_key
GetTransitionPriorityKey(condition, out, n, depth) ==
    IF condition.tag = "One" THEN Returned(condition.c)
    ELSE IF condition.tag = "Any" THEN Returned(0)
    ELSE IF condition.tag = "None" THEN
        IF out.tag = "Id" THEN
            LET next_state == GetState(n, out.id)
            IN  IF next_state = Absent THEN Panic
                ELSE IF depth >= Len(n.states) THEN Overflow
                ELSE GetPriorityKey(next_state[1], n, depth + 1)
        ELSE Returned(UsizeMax)
    ELSE Returned(0)

\* State::get_priority_key
GetPriorityKey(state, n, depth) ==
    IF state.variant = "State"
    THEN GetTransitionPriorityKey(state.condition, state.out, n, depth)
    ELSE MinOutcome(GetTransitionPriorityKey(None, state.out1, n, depth),
                    GetTransitionPriorityKey(None, state.out2, n, depth))

(***************************************************************************)
(* Expr: the syntax tree, as build_expr matches on it                      *)
(***************************************************************************)
ExprAny == [tag |-> "Any"]
Single(c) == [tag |-> "Single", c |-> c]
ExprClass(chars) == [tag |-> "Class", chars |-> chars]
Sequence(a, b) == [tag |-> "Sequence", a |-> a, b |-> b]
Optional(e) == [tag |-> "Optional", e |-> e]
OneOrMore(e) == [tag |-> "OneOrMore", e |-> e]
ZeroOrMore(e) == [tag |-> "ZeroOrMore", e |-> e]
Or(a, b) == [tag |-> "Or", a |-> a, b |-> b]

\* the sub-trees build_expr recurses into, in call order
Children(e) ==
    IF e.tag \in {"Sequence", "Or"} THEN <<e.a, e.b>>
    ELSE IF e.tag \in {"Optional", "OneOrMore", "ZeroOrMore"} THEN <<e.e>>
    ELSE <<>>

\* the character lists of the Class nodes the model builds
ClassLists == {<<97, 98>>, <<98, 233>>}

Leaves == {ExprAny} \cup {Single(c) : c \in Chars} \cup {ExprClass(l) : l \in ClassLists}

\* the syntax trees of exactly k nodes
ExprsOfSize[k \in 1..MaxNodes] ==
    IF k = 1 THEN Leaves
    ELSE LET unary == UNION {{Optional(e), OneOrMore(e), ZeroOrMore(e)} :
                                e \in ExprsOfSize[k - 1]}
             binary == UNION {UNION {{Sequence(a, b), Or(a, b)} :
                                        a \in ExprsOfSize[i], b \in ExprsOfSize[k - 1 - i]} :
                                 i \in 1..(k - 2)}
         IN  unary \cup binary

\* the inputs of from_expr
Exprs == UNION {ExprsOfSize[k] : k \in 1..MaxNodes}

(***************************************************************************)
(* Fragment builder: the arms of build_expr                                *)
(*                                                                         *)
(* Each arm is given the arena as the recursive calls left it and the      *)
(* indices they returned; it yields the arena after the arm, the index the *)
(* arm returns and the history of its patch pass (empty without one).      *)
(***************************************************************************)
\* Vec::push
Push(states, s) == Append(states, s)

Arm(states, id, entered) == [states |-> states, id |-> id, entered |-> entered]

\* build_expr, Expr::Any
ArmAny(states) ==
    LET pushed == Push(states, State(Any, Detached))
    IN  Arm(pushed, Len(pushed) - 1, <<>>)

\* build_expr, Expr::Single, the condition already made
ArmSingle(states, condition) ==
    LET pushed == Push(states, State(condition, Detached))
    IN  Arm(pushed, Len(pushed) - 1, <<>>)

\* build_expr, Expr::Class, the condition already made
ArmClass(states, condition) ==
    LET pushed == Push(states, State(condition, Detached))
    IN  Arm(pushed, Len(pushed) - 1, <<>>)

\* build_expr, Expr::Sequence, returning the right entry
ArmSequenceReturnsRight(states, left_id, right_id) ==
    LET m == UpdateOutputs(states, left_id, Id(right_id))
    IN  Arm(m.states, right_id, m.entered)

\* build_expr, Expr::Sequence
ArmSequence(states, left_id, right_id) ==
    LET m == UpdateOutputs(states, left_id, Id(right_id))
    IN  Arm(m.states, left_id, m.entered)

\* build_expr, Expr::Optional, returning the inner entry instead of the Branch
ArmOptionalReturnsInner(states, expr_id) ==
    LET pushed == Push(states, Split(Id(expr_id), Detached))
    IN  Arm(pushed, expr_id, <<>>)

\* build_expr, Expr::Optional
ArmOptional(states, expr_id) ==
    LET pushed == Push(states, Split(Id(expr_id), Detached))
    IN  Arm(pushed, Len(pushed) - 1, <<>>)

\* build_expr, Expr::OneOrMore, returning the Branch as the ZeroOrMore arm does
ArmOneOrMoreReturnsSplit(states, expr_id) ==
    LET pushed == Push(states, Split(Id(expr_id), Detached))
        split_id == Len(pushed) - 1
        m == UpdateOutputs(pushed, expr_id, Id(split_id))
    IN  Arm(m.states, split_id, m.entered)

\* build_expr, Expr::OneOrMore
ArmOneOrMore(states, expr_id) ==
    LET pushed == Push(states, Split(Id(expr_id), Detached))
        split_id == Len(pushed) - 1
        m == UpdateOutputs(pushed, expr_id, Id(split_id))
    IN  Arm(m.states, expr_id, m.entered)

\* build_expr, Expr::ZeroOrMore, returning the inner entry as the OneOrMore arm does
ArmZeroOrMoreReturnsInner(states, expr_id) ==
    LET pushed == Push(states, Split(Id(expr_id), Detached))
        split_id == Len(pushed) - 1
        m == UpdateOutputs(pushed, expr_id, Id(split_id))
    IN  Arm(m.states, expr_id, m.entered)

\* build_expr, Expr::ZeroOrMore
ArmZeroOrMore(states, expr_id) ==
    LET pushed == Push(states, Split(Id(expr_id), Detached))
        split_id == Len(pushed) - 1
        m == UpdateOutputs(pushed, expr_id, Id(split_id))
    IN  Arm(m.states, split_id, m.entered)

\* build_expr, Expr::Or
ArmOr(states, expr1_id, expr2_id) ==
    LET pushed == Push(states, Split(Id(expr1_id), Id(expr2_id)))
    IN  Arm(pushed, Len(pushed) - 1, <<>>)

(***************************************************************************)
(* The state machine                                                       *)
(*                                                                         *)
(* A frame of stack is one active build_expr call: its node, the indices   *)
(* its finished recursive calls returned (ids), and as history the arena   *)
(* length when the call began (lo) and when each recursive call began      *)
(* (los), which delimit the fragments.                                     *)
(***************************************************************************)
NoExpr == [tag |-> "none"]

Frame(e, lo) == [expr |-> e, ids |-> <<>>, los |-> <<>>, lo |-> lo]

Last(op, before, ids, los, lo, id, target, entered) ==
    [op |-> op, before |-> before, ids |-> ids, los |-> los, lo |-> lo,
     id |-> id, target |-> target, entered |-> entered]

NoLast == Last("none", <<>>, <<>>, <<>>, 0, 0, Detached, <<>>)

NoResult == [op |-> "none"]

Init ==
    /\ pc = "start"
    /\ expr = NoExpr
    /\ nfa = New
    /\ stack = <<>>
    /\ ret = 0
    /\ last = NoLast
    /\ result = NoResult

Top == stack[Len(stack)]

\* the top frame is a call on a node of this kind whose recursive calls are done
Ready(tag) ==
    /\ pc = "building"
    /\ Top.expr.tag = tag
    /\ Len(Top.ids) = Len(Children(Top.expr))

\* the return of the top call with the arm's outcome: to the caller's frame, or
\* out of the outermost call to from_expr
Return(op, arm) ==
    /\ nfa' = [nfa EXCEPT !.states = arm.states]
    /\ ret' = arm.id
    /\ last' = Last(op, nfa.states, Top.ids, Top.los, Top.lo, arm.id, Detached,
                    arm.entered)
    /\ IF Len(stack) = 1
       THEN stack' = <<>> /\ pc' = "built"
       ELSE LET caller == stack[Len(stack) - 1]
            IN  /\ stack' = Append(SubSeq(stack, 1, Len(stack) - 2),
                                   [caller EXCEPT !.ids = Append(@, arm.id),
                                                  !.los = Append(@, Top.lo)])
                /\ pc' = pc
    /\ UNCHANGED <<expr, result>>

\* the panic of to_ascii unwinds from_expr: no automaton is returned
Unwind ==
    /\ pc' = "panicked"
    /\ UNCHANGED <<expr, nfa, stack, ret, last, result>>

\* NFA::from_expr up to the call of build_expr
FromExprCall(e) ==
    /\ pc = "start"
    /\ pc' = "building"
    /\ expr' = e
    /\ nfa' = New
    /\ stack' = <<Frame(e, 0)>>
    /\ UNCHANGED <<ret, last, result>>

\* build_expr: the next recursive call of the top frame
BuildRecurse ==
    /\ pc = "building"
    /\ Len(Top.ids) < Len(Children(Top.expr))
    /\ stack' = Append(stack, Frame(Children(Top.expr)[Len(Top.ids) + 1],
                                    Len(nfa.states)))
    /\ UNCHANGED <<pc, expr, nfa, ret, last, result>>

BuildAny ==
    /\ Ready("Any")
    /\ Return("Any", ArmAny(nfa.states))

BuildSingle ==
    /\ Ready("Single")
    /\ LET condition == ConditionOne(Top.expr.c)
       IN  IF condition = Panic
           THEN Unwind
           ELSE Return("Single", ArmSingle(nfa.states, condition.v))

BuildClass ==
    /\ Ready("Class")
    /\ LET condition == ConditionClass(Top.expr.chars)
       IN  IF condition = Panic
           THEN Unwind
           ELSE Return("Class", ArmClass(nfa.states, condition.v))

BuildSequence ==
    /\ Ready("Sequence")
    /\ Return("Sequence", ArmSequence(nfa.states, Top.ids[1], Top.ids[2]))

BuildOptional ==
    /\ Ready("Optional")
    /\ Return("Optional", ArmOptional(nfa.states, Top.ids[1]))

BuildOneOrMore ==
    /\ Ready("OneOrMore")
    /\ Return("OneOrMore", ArmOneOrMore(nfa.states, Top.ids[1]))

BuildZeroOrMore ==
    /\ Ready("ZeroOrMore")
    /\ Return("ZeroOrMore", ArmZeroOrMore(nfa.states, Top.ids[1]))

BuildOr ==
    /\ Ready("Or")
    /\ Return("Or", ArmOr(nfa.states, Top.ids[1], Top.ids[2]))

\* NFA::from_expr after build_expr returned: the patch to End and the start index
FromExprReturn ==
    /\ pc = "built"
    /\ LET m == UpdateOutputs(nfa.states, ret, End)
       IN  /\ nfa' = [start |-> ret, states |-> m.states]
           /\ last' = Last("from_expr", nfa.states, <<>>, <<>>, 0, ret, End, m.entered)
    /\ pc' = "done"
    /\ UNCHANGED <<expr, stack, ret, result>>

(***************************************************************************)
(* Explicit arenas: the inputs of from_states and of a patch pass on its   *)
(* own.  Every Id edge of an arena of n states is in range.                *)
(***************************************************************************)
ArenaEdges(n) == {Id(j) : j \in 0..(n - 1)} \cup {Detached, End}

\* the states of the arenas the priority resolver is run on
ArenaStates(n) ==
    {State(One(98), End), State(Any, End)}
    \cup {State(None, e) : e \in ArenaEdges(n) \ {Detached}}
    \cup {Split(e1, e2) : e1 \in ArenaEdges(n) \ {Detached},
                          e2 \in ArenaEdges(n) \ {Detached}}

Arenas == UNION {[1..n -> ArenaStates(n)] : n \in 0..MaxArena}

\* the states of the arenas handed to a patch pass
PatchStates(n) ==
    {State(One(98), e) : e \in ArenaEdges(n)}
    \cup {State(Class(<<97, 98>>), Detached)}
    \cup {Split(e1, e2) : e1 \in ArenaEdges(n), e2 \in ArenaEdges(n)}

PatchArenas == UNION {[1..n -> PatchStates(n)] : n \in 1..MaxArena}

\* the states the caller builds and calls get_priority_key on
FreeStates ==
    {State(One(97), End), State(One(97), Id(0)), State(Any, Id(0)),
     State(Class(<<97, 98>>), End), State(Class(<<>>), Id(0)),
     State(None, End), State(None, Detached), State(None, Id(0)), State(None, Id(1)),
     Split(Id(0), End), Split(End, End), Split(Id(0), Id(1)), Split(Detached, Id(2))}

\* NFA::new
NewCall ==
    /\ pc = "start"
    /\ pc' = "done"
    /\ nfa' = New
    /\ UNCHANGED <<expr, stack, ret, last, result>>

\* NFA::from_states
FromStatesCall(states) ==
    /\ pc = "start"
    /\ pc' = "done"
    /\ nfa' = FromStates(states)
    /\ UNCHANGED <<expr, stack, ret, last, result>>

\* NFA::get_start
GetStartCall ==
    /\ pc = "done"
    /\ result' = [op |-> "get_start", val |-> GetStart(nfa)]
    /\ UNCHANGED <<pc, expr, nfa, stack, ret, last>>

\* NFA::get_state
GetStateCall(index) ==
    /\ pc = "done"
    /\ result' = [op |-> "get_state", index |-> index, val |-> GetState(nfa, index)]
    /\ UNCHANGED <<pc, expr, nfa, stack, ret, last>>

\* NFA::num_states
NumStatesCall ==
    /\ pc = "done"
    /\ result' = [op |-> "num_states", val |-> NumStates(nfa)]
    /\ UNCHANGED <<pc, expr, nfa, stack, ret, last>>

\* State::get_priority_key on a copy of the arena's state at index
GetPriorityKeyCall(index) ==
    /\ pc = "done"
    /\ index < Len(nfa.states)
    /\ LET state == GetState(nfa, index)[1]
       IN  result' = [op |-> "get_priority_key", state |-> state,
                      val |-> GetPriorityKey(state, nfa, 0)]
    /\ UNCHANGED <<pc, expr, nfa, stack, ret, last>>

\* State::get_priority_key on a state that is not in the arena
GetPriorityKeyFree(state) ==
    /\ pc = "done"
    /\ result' = [op |-> "get_priority_key", state |-> state,
                  val |-> GetPriorityKey(state, nfa, 0)]
    /\ UNCHANGED <<pc, expr, nfa, stack, ret, last>>

\* NFA::update_outputs on its own
UpdateOutputsCall(start_id, new_edge) ==
    /\ pc = "patching"
    /\ pc' = "patched"
    /\ LET m == UpdateOutputs(nfa.states, start_id, new_edge)
       IN  /\ nfa' = [nfa EXCEPT !.states = m.states]
           /\ last' = Last("update_outputs", nfa.states, <<>>, <<>>, 0, start_id,
                           new_edge, m.entered)
    /\ UNCHANGED <<expr, stack, ret, result>>

\* the indices a caller asks for: all that are in range, and two that are not
Indices == 0..(Len(nfa.states) + 1)

Queries ==
    \/ GetStartCall
    \/ \E index \in Indices : GetStateCall(index)
    \/ NumStatesCall
    \/ \E index \in Indices : GetPriorityKeyCall(index)

Build ==
    \/ BuildRecurse
    \/ BuildAny
    \/ BuildSingle
    \/ BuildClass
    \/ BuildSequence
    \/ BuildOptional
    \/ BuildOneOrMore
    \/ BuildZeroOrMore
    \/ BuildOr

\* the public interface: the three constructors and the queries
Next ==
    \/ NewCall
    \/ pc = "start" /\ \E states \in Arenas : FromStatesCall(states)
    \/ pc = "start" /\ \E e \in Exprs : FromExprCall(e)
    \/ Build
    \/ FromExprReturn
    \/ Queries

Spec == Init /\ [][Next]_vars

\* the priority resolver on explicit arenas, on their states and on free states
NextPriority ==
    \/ NewCall
    \/ pc = "start" /\ \E states \in Arenas : FromStatesCall(states)
    \/ \E index \in Indices : GetPriorityKeyCall(index)
    \/ \E state \in FreeStates : GetPriorityKeyFree(state)

SpecPriority == Init /\ [][NextPriority]_vars

\* one patch pass on an explicit arena
InitPatch ==
    /\ pc = "patching"
    /\ expr = NoExpr
    /\ nfa \in {FromStates(states) : states \in PatchArenas}
    /\ stack = <<>>
    /\ ret = 0
    /\ last = NoLast
    /\ result = NoResult

NextPatch ==
    \E start_id \in 0..(Len(nfa.states) - 1),
       new_edge \in ArenaEdges(Len(nfa.states)) \ {Detached} :
        UpdateOutputsCall(start_id, new_edge)

SpecPatch == InitPatch /\ [][NextPatch]_vars

(***************************************************************************)
(* Graph notions the properties are stated with                            *)
(***************************************************************************)
\* the edges of a state, as a set
OutSet(s) == {Outs(s)[k] : k \in 1..Len(Outs(s))}

\* the indices one Linked transition away from the states of a set of indices
Successors(states, from) ==
    {e.id : e \in {x \in UNION {OutSet(states[i + 1]) : i \in from} : x.tag = "Id"}}

RECURSIVE ReachSet(_, _)
ReachSet(states, seen) ==
    LET more == seen \cup Successors(states, seen)
    IN  IF more = seen THEN seen ELSE ReachSet(states, more)

\* the indices reachable from entry by following Linked transitions
Reach(states, entry) == ReachSet(states, {entry})

\* the places a transition is stored at: <<index, k>> is edge k of state index
Slots(states) ==
    {<<i, k>> : i \in 0..(Len(states) - 1), k \in 1..2} \cap
    UNION {{<<i, k>> : k \in 1..Len(Outs(states[i + 1]))} : i \in 0..(Len(states) - 1)}

EdgeAt(states, slot) == Outs(states[slot[1] + 1])[slot[2]]

\* the slots holding an Open transition
OpenSlots(states) == {slot \in Slots(states) : EdgeAt(states, slot) = Detached}

\* the automaton is one from_expr returned
Compiled == pc = "done" /\ expr # NoExpr

(***************************************************************************)
(* Properties                                                              *)
(***************************************************************************)

\* C1: once from_expr has returned, no transition anywhere in the arena is Open:
\* no Match state's next and no Branch's next1 or next2.
C1_NoOpenAfterFromExpr ==
    Compiled => OpenSlots(nfa.states) = {}

\* C1 witness: from_expr returned an automaton for a Sequence whose left part is
\* an Optional, so the final patch had exits to close on several states.
C1_Witness ==
    /\ Compiled
    /\ expr.tag = "Sequence"
    /\ expr.a.tag = "Optional"
    /\ last.op = "from_expr"
    /\ OpenSlots(last.before) # {}
    /\ Len(nfa.states) >= 3

\* C2: on an automaton from_expr returned, get_priority_key returns a value on
\* every state of the arena.
C2_PriorityTerminates ==
    (Compiled /\ result.op = "get_priority_key") => result.val.tag = "returned"

\* the Branch states reachable from the states of a set by Linked transitions
\* that lead to a Branch
BranchSuccessors(states, from) ==
    {j \in Successors(states, from) : states[j + 1].variant = "Split"}

RECURSIVE BranchReachSet(_, _)
BranchReachSet(states, seen) ==
    LET more == seen \cup BranchSuccessors(states, seen)
    IN  IF more = seen THEN seen ELSE BranchReachSet(states, more)

\* the Branch states that lie on a cycle of Linked transitions through Branch
\* states only
OnBranchCycle(states) ==
    {i \in 0..(Len(states) - 1) :
        /\ states[i + 1].variant = "Split"
        /\ i \in BranchReachSet(states, BranchSuccessors(states, {i}))}

\* C3: in an automaton from_expr returned, every cycle of Linked transitions
\* holds a consuming Match state: no cycle is made of Branch states only.
C3_NoBranchOnlyCycle ==
    Compiled => OnBranchCycle(nfa.states) = {}

\* the priority of the state a transition leads to, resolved as a None-conditioned
\* transition is: the target's own priority, or the maximum when there is no target
TargetPriority(e) ==
    IF e.tag = "Id"
    THEN GetPriorityKey(nfa.states[e.id + 1], nfa, 0)
    ELSE Returned(UsizeMax)

\* C4: when get_priority_key returns, a Match with One(c) gives the byte c, a
\* Match with Any or Class gives 0, a Match with None gives the priority of its
\* Linked target or the maximum on Open and Accept, and a Branch gives the
\* smaller of its two successors' priorities; the successor of a One, Any or
\* Class Match plays no part.
C4_PriorityValue ==
    (result.op = "get_priority_key" /\ result.val.tag = "returned") =>
        LET s == result.state
            v == result.val.v
        IN  IF s.variant = "State"
            THEN /\ s.condition.tag = "One" => v = s.condition.c
                 /\ s.condition.tag \in {"Any", "Class"} => v = 0
                 /\ s.condition.tag = "None" =>
                        /\ TargetPriority(s.out).tag = "returned"
                        /\ v = TargetPriority(s.out).v
                        /\ s.out.tag # "Id" => v = UsizeMax
            ELSE LET p1 == TargetPriority(s.out1)
                     p2 == TargetPriority(s.out2)
                 IN  /\ p1.tag = "returned"
                     /\ p2.tag = "returned"
                     /\ v = IF p1.v <= p2.v THEN p1.v ELSE p2.v

\* C4 witness: a Branch whose first successor is a None-conditioned dead end and
\* whose second is a One(98) Match returned 98.
C4_Witness ==
    /\ result.op = "get_priority_key"
    /\ result.state = Split(Id(0), Id(1))
    /\ Len(nfa.states) >= 2
    /\ nfa.states[1] = State(None, End)
    /\ nfa.states[2].variant = "State"
    /\ nfa.states[2].condition = One(98)
    /\ result.val = Returned(98)

\* the Open transitions of the arena before the Sequence arm that were reachable
\* from the left fragment's entry
C5_LeftExits ==
    {slot \in OpenSlots(last.before) : slot[1] \in Reach(last.before, last.ids[1])}

\* the Open transitions of the right fragment before the Sequence arm
C5_RightExits ==
    {slot \in OpenSlots(last.before) : slot[1] >= last.los[2]}

\* C5: the Sequence arm returns the left entry, turns every Open transition that
\* was reachable from the left entry into Linked(right entry), and leaves every
\* Open transition of the right fragment Open.
C5_SequencePatch ==
    last.op = "Sequence" =>
        /\ ret = last.ids[1]
        /\ Len(nfa.states) = Len(last.before)
        /\ \A slot \in C5_LeftExits : EdgeAt(nfa.states, slot) = Id(last.ids[2])
        /\ \A slot \in C5_RightExits : EdgeAt(nfa.states, slot) = Detached

\* C5 witness: a Sequence arm ran whose left fragment had two Open exits and
\* whose right fragment had one.
C5_Witness ==
    /\ last.op = "Sequence"
    /\ Cardinality(C5_LeftExits) >= 2
    /\ C5_RightExits # {}

\* what the claim says get_state returns for an index
C6_StateAt(n, index) ==
    IF index >= Len(n.states) THEN <<>> ELSE <<n.states[index + 1]>>

\* C6: a query never fails and changes neither the arena nor the start index:
\* get_state(i) is absent exactly when i >= num_states and else a copy of the
\* state at i, and get_start is the same for the start index.
C6_IndexQueries ==
    [][pc = "done" =>
        /\ nfa' = nfa
        /\ pc' = "done"
        /\ result'.op \in {"get_start", "get_state", "num_states", "get_priority_key"}
        /\ result'.op = "get_state" => result'.val = C6_StateAt(nfa, result'.index)
        /\ result'.op = "get_start" => result'.val = C6_StateAt(nfa, nfa.start)
        /\ result'.op = "num_states" => result'.val = Len(nfa.states)]_vars

\* C6 witness: get_state was asked for the first index past a non-empty arena and
\* returned absent.
C6_Witness ==
    /\ pc = "done"
    /\ result.op = "get_state"
    /\ nfa.states # <<>>
    /\ result.index = Len(nfa.states)
    /\ result.val = <<>>

RECURSIVE AllOneByte(_)
\* every character of every Single and Class node of the tree encodes as one byte
AllOneByte(e) ==
    IF e.tag = "Single" THEN Utf8Len(e.c) = 1
    ELSE IF e.tag = "Class" THEN \A i \in 1..Len(e.chars) : Utf8Len(e.chars[i]) = 1
    ELSE \A i \in 1..Len(Children(e)) : AllOneByte(Children(e)[i])

\* the innermost build_expr call has a recursive call left to make, or is at the
\* arm of its node
C7_BuildCanStep ==
    /\ stack # <<>>
    /\ \/ Len(Top.ids) < Len(Children(Top.expr))
       \/ \E tag \in {"Any", "Single", "Class", "Sequence", "Optional", "OneOrMore",
                       "ZeroOrMore", "Or"} : Ready(tag)

\* C7: from_expr panics only on a tree holding a character that is not one byte,
\* returns an automaton only for a tree holding none, and until it has done one
\* or the other the build can take a step.
C7_PanicsIffNotOneByte ==
    expr # NoExpr =>
        /\ pc = "panicked" => ~AllOneByte(expr)
        /\ pc \in {"built", "done"} => AllOneByte(expr)
        /\ pc = "building" => C7_BuildCanStep

\* C7 witness: from_expr panicked inside a nested build_expr call, after states
\* had been pushed for the nodes before the offending one.
C7_Witness ==
    /\ pc = "panicked"
    /\ Len(stack) >= 2
    /\ nfa.states # <<>>

\* C8: one patch pass turns exactly the Open transitions reachable from the entry
\* by Linked transitions into the target; every other transition, every variant
\* and condition, the arena's length and the start index stay as they were.
C8_PatchFrame ==
    [][last'.op = "update_outputs" =>
        LET entry == last'.id
            target == last'.target
            reached == Reach(nfa.states, entry)
        IN  /\ nfa'.start = nfa.start
            /\ Len(nfa'.states) = Len(nfa.states)
            /\ \A i \in 1..Len(nfa.states) :
                /\ nfa'.states[i].variant = nfa.states[i].variant
                /\ nfa.states[i].variant = "State" =>
                       nfa'.states[i].condition = nfa.states[i].condition
            /\ \A slot \in Slots(nfa.states) :
                EdgeAt(nfa'.states, slot) =
                    IF EdgeAt(nfa.states, slot) = Detached /\ slot[1] \in reached
                    THEN target
                    ELSE EdgeAt(nfa.states, slot)]_vars

\* C8 witness: a pass ran on an arena that had an Open transition in reach of the
\* entry, one out of reach, and an Accept transition in reach.
C8_Witness ==
    /\ last.op = "update_outputs"
    /\ \E slot \in OpenSlots(last.before) : slot[1] \in Reach(last.before, last.id)
    /\ \E slot \in OpenSlots(last.before) : slot[1] \notin Reach(last.before, last.id)
    /\ \E slot \in Slots(last.before) :
        /\ slot[1] \in Reach(last.before, last.id)
        /\ EdgeAt(last.before, slot) = End
    /\ nfa.states # last.before

\* C9: in one patch pass update_outputs_rec is called at most once per state, and
\* on exactly the states reachable from the entry: the pass ends after at most
\* num_states calls, cycles or not.
C9_PatchEntersOnce ==
    last.op = "update_outputs" =>
        /\ \A i, j \in 1..Len(last.entered) :
            last.entered[i] = last.entered[j] => i = j
        /\ {last.entered[i] : i \in 1..Len(last.entered)} = Reach(last.before, last.id)
        /\ Len(last.entered) <= Len(last.before)

\* C9 witness: a pass ran from an entry that lies on a cycle of Linked
\* transitions through another state.
C9_Witness ==
    /\ last.op = "update_outputs"
    /\ Len(last.entered) >= 2
    /\ last.id \in Successors(last.before, Reach(last.before, last.id) \ {last.id})

\* the index of the Branch a repetition arm appends
C10_Branch == Len(last.before)

\* the Open transitions that were reachable from the inner entry before the arm
C10_InnerExits ==
    {slot \in OpenSlots(last.before) : slot[1] \in Reach(last.before, last.ids[1])}

\* C10: the OneOrMore arm and the ZeroOrMore arm leave the same arena and differ
\* only in the index returned (the inner entry, the new Branch): the Branch has
\* next1 = Linked(inner entry), every Open exit that was reachable from the inner
\* entry is Linked(Branch), and the Branch's next2 is the only Open transition
\* left in the fragment.
C10_Repetition ==
    last.op \in {"OneOrMore", "ZeroOrMore"} =>
        /\ nfa.states = ArmOneOrMore(last.before, last.ids[1]).states
        /\ nfa.states = ArmZeroOrMore(last.before, last.ids[1]).states
        /\ ret = IF last.op = "OneOrMore" THEN last.ids[1] ELSE C10_Branch
        /\ Len(nfa.states) = C10_Branch + 1
        /\ nfa.states[C10_Branch + 1] = Split(Id(last.ids[1]), Detached)
        /\ \A slot \in C10_InnerExits : EdgeAt(nfa.states, slot) = Id(C10_Branch)
        /\ {slot \in OpenSlots(nfa.states) : slot[1] >= last.lo} = {<<C10_Branch, 2>>}

\* C10 witness: a OneOrMore arm ran on an inner fragment with two Open exits.
C10_Witness ==
    /\ last.op = "OneOrMore"
    /\ Cardinality(C10_InnerExits) >= 2

\* the Linked transitions of an arena, as the set of their targets
C11_Targets == {EdgeAt(nfa.states, slot).id :
                   slot \in {x \in Slots(nfa.states) : EdgeAt(nfa.states, x).tag = "Id"}}

\* C11: in every automaton from_expr returned the start index is below num_states,
\* every Linked(i) transition has i below num_states, every state is reachable
\* from the start state and no state carries the None condition; so get_start
\* is never absent and get_priority_key on a state of the arena never unwraps an
\* absent state.
C11_WellFormed ==
    Compiled =>
        /\ nfa.start < NumStates(nfa)
        /\ \A i \in C11_Targets : i < NumStates(nfa)
        /\ Reach(nfa.states, nfa.start) = 0..(NumStates(nfa) - 1)
        /\ \A i \in 1..Len(nfa.states) :
               nfa.states[i].variant = "State" => nfa.states[i].condition # None
        /\ GetStart(nfa) # Absent
        /\ result.op = "get_start" => result.val = Some(nfa.states[nfa.start + 1])
        /\ \A i \in 1..Len(nfa.states) : GetPriorityKey(nfa.states[i], nfa, 0) # Panic

\* C11 witness: a compiled automaton of three or more states whose start is not
\* state 0 and holds a Branch linked to two other states, after get_start
\* answered.
C11_Witness ==
    /\ Compiled
    /\ NumStates(nfa) >= 3
    /\ nfa.start > 0
    /\ nfa.states[nfa.start + 1].variant = "Split"
    /\ Cardinality(Successors(nfa.states, {nfa.start})) = 2
    /\ result.op = "get_start"

(***************************************************************************)
(* Byte strings, the paths of an automaton and the language of a tree      *)
(***************************************************************************)
MaxStr == 3

\* 'a', 'b' and a byte no Single or Class of Exprs names
Bytes == {97, 98, 99}

Strings == UNION {[1..k -> Bytes] : k \in 0..MaxStr}

\* a Match state's condition lets the byte through
Satisfies(condition, byte) ==
    IF condition.tag = "One" THEN byte = condition.c
    ELSE IF condition.tag = "Class"
         THEN \E k \in 1..Len(condition.chars) : condition.chars[k] = byte
    ELSE condition.tag = "Any"

\* the states a set of transitions leads to that are of the given variant
Heads(states, edges, variant) ==
    {e.id : e \in {x \in edges : /\ x.tag = "Id"
                                 /\ x.id < Len(states)
                                 /\ states[x.id + 1].variant = variant}}

\* the transitions that can be stood on without consuming a byte: Branch
\* states are passed through, along both of their transitions
RECURSIVE Closure(_, _)
Closure(states, edges) ==
    LET more == edges \cup
                UNION {OutSet(states[i + 1]) : i \in Heads(states, edges, "Split")}
    IN  IF more = edges THEN edges ELSE Closure(states, more)

\* the transitions left through after a Match state consumed the byte
Step(states, edges, byte) ==
    {states[i + 1].out :
        i \in {j \in Heads(states, Closure(states, edges), "State") :
                  Satisfies(states[j + 1].condition, byte)}}

RECURSIVE Run(_, _, _)
Run(states, edges, w) ==
    IF w = <<>> THEN Closure(states, edges)
    ELSE Run(states, Step(states, edges, Head(w)), Tail(w))

\* there is a path from the start state to an Accept transition consuming w
Accepts(n, w) == End \in Run(n.states, {Id(n.start)}, w)

\* w belongs to the regular language of the tree e
RECURSIVE InLanguage(_, _)
InLanguage(e, w) ==
    IF e.tag = "Any" THEN Len(w) = 1
    ELSE IF e.tag = "Single" THEN w = <<e.c>>
    ELSE IF e.tag = "Class"
         THEN Len(w) = 1 /\ \E k \in 1..Len(e.chars) : e.chars[k] = w[1]
    ELSE IF e.tag = "Sequence"
         THEN \E k \in 0..Len(w) : /\ InLanguage(Children(e)[1], SubSeq(w, 1, k))
                                   /\ InLanguage(Children(e)[2], SubSeq(w, k + 1, Len(w)))
    ELSE IF e.tag = "Or"
         THEN InLanguage(Children(e)[1], w) \/ InLanguage(Children(e)[2], w)
    ELSE IF e.tag = "Optional" THEN w = <<>> \/ InLanguage(Children(e)[1], w)
    ELSE IF e.tag = "OneOrMore"
         THEN \/ InLanguage(Children(e)[1], w)
              \/ \E k \in 1..(Len(w) - 1) :
                     /\ InLanguage(Children(e)[1], SubSeq(w, 1, k))
                     /\ InLanguage(e, SubSeq(w, k + 1, Len(w)))
    ELSE \/ w = <<>>
         \/ InLanguage(OneOrMore(Children(e)[1]), w)

\* C12: for every tree and every byte string of the bounds, the automaton
\* from_expr returned has a path from its start state to an Accept transition
\* that consumes exactly the string (a Match state consumes one byte that
\* satisfies its condition, a Branch state consumes nothing) if and only if the
\* string is in the regular language of the tree: Optional is zero or one,
\* OneOrMore one or more, ZeroOrMore zero or more, Or union, Sequence
\* concatenation.
\* The state is the one from_expr returns in: the queries that follow leave nfa
\* and expr as they are.
C12_AcceptsLanguage ==
    (Compiled /\ result = NoResult) =>
        \A w \in Strings : Accepts(nfa, w) <=> InLanguage(expr, w)

\* C12 witness: the automaton of a tree that nests a repetition in a Sequence
\* accepts a string of two bytes, rejects one of its prefixes and rejects the
\* empty string.
C12_Witness ==
    /\ Compiled
    /\ result = NoResult
    /\ expr.tag = "Sequence"
    /\ \E i \in 1..2 : Children(expr)[i].tag \in {"OneOrMore", "ZeroOrMore"}
    /\ Accepts(nfa, <<97, 98>>)
    /\ ~Accepts(nfa, <<97>>)
    /\ ~Accepts(nfa, <<>>)

====
